---------------------------- MODULE Spec2Model ----------------------------
(***************************************************************************)
(* Botsy: a model of the chat page (TestBot + ChatWidget), of the bot      *)
(* editor and dashboard forms (EditBot, Dashboard) and of the per-bot      *)
(* vector store the pages call into.                                       *)
(*                                                                         *)
(* Text is modelled as a sequence of one-character strings, so that        *)
(* String.prototype.trim and the JavaScript truthiness of a string are     *)
(* computed, not assumed.                                                  *)
(***************************************************************************)
EXTENDS Integers, Sequences, FiniteSets, TLC

(***************************************************************************)
(* Bounds of the model.                                                    *)
(***************************************************************************)
MaxSends == 2

MaxChunks == 3

MaxTopK == 3

MaxRuns == 2

MaxDocs == 4

MaxPending == 2

MaxOptions == 2

MaxSaves == 1

MaxEdits == 3

MaxDocChunks == 2

MaxIngests == 2

(***************************************************************************)
(* Text helpers.                                                           *)
(***************************************************************************)
Empty == <<>>

IsSpace(c) == c = " "

RECURSIVE TrimStart(_)
TrimStart(s) ==
    IF s = <<>> THEN <<>>
    ELSE IF IsSpace(Head(s)) THEN TrimStart(Tail(s)) ELSE s

RECURSIVE TrimEnd(_)
TrimEnd(s) ==
    IF s = <<>> THEN <<>>
    ELSE IF IsSpace(s[Len(s)]) THEN TrimEnd(SubSeq(s, 1, Len(s) - 1)) ELSE s

\* String.prototype.trim
Trim(s) == TrimEnd(TrimStart(s))

\* JavaScript truthiness of a string: the empty string is the only falsy one
Truthy(s) == s # <<>>

(***************************************************************************)
(* The bots the backend may hold for the chat page.                        *)
(***************************************************************************)
OptPricing == [option_name |-> <<"P">>, prompt |-> <<"p", "?">>]
OptHours == [option_name |-> <<"H">>, prompt |-> <<"h", "?">>]

Greeting == <<"h", "i">>

BotConfigs ==
    { [greeting_message |-> Greeting, menu_options |-> <<OptPricing, OptHours>>],
      [greeting_message |-> Greeting, menu_options |-> <<>>],
      [greeting_message |-> Empty, menu_options |-> <<OptPricing>>],
      [greeting_message |-> Empty, menu_options |-> <<>>] }

\* what the end user may type into the widget's textarea
Inputs == { Empty, <<" ">>, <<"a">>, <<"b", " ">> }

\* response.data.message of a successful chat request
Replies == { <<"r">> }

NoBot == [none |-> TRUE]

VARIABLES
    srvBot,        \* the bot record the backend serves to GET /api/bots/{id}
    bot,           \* TestBot state: the loaded bot, NoBot before loadBot resolves
    route,         \* the page shown: "/test-bot" or "/dashboard"
    messages,      \* TestBot state: the visible history
    inputMessage,  \* TestBot state: its own input text
    isLoading,     \* TestBot state: a chat request is pending
    inputValue,    \* ChatWidget state: the textarea
    inflight,      \* chat requests posted and not yet settled
    origin,        \* history: for each entry of messages, where it came from
    nextReq,       \* history: number of the next chat request
    last           \* history: the handler that ran last

chatVars ==
    << srvBot, bot, route, messages, inputMessage, isLoading, inputValue,
       inflight, origin, nextReq, last >>


(***************************************************************************)
(* ChatWidget rendering.                                                   *)
(***************************************************************************)
\* the condition under which the widget renders the menu buttons
MenuShown ==
    /\ bot # NoBot
    /\ Len(messages) = 1
    /\ messages[1].role = "assistant"

\* the options the end user can click
MenuOffered == IF MenuShown THEN bot.menu_options ELSE <<>>

(***************************************************************************)
(* TestBot.                                                                *)
(***************************************************************************)
errorMessage ==
    [role |-> "assistant", content |-> <<"s", "o", "r", "r", "y">>]

\* const content = messageContent || inputMessage
Content(messageContent) ==
    IF Truthy(messageContent) THEN messageContent ELSE inputMessage

\* if (!content.trim() || isLoading) return
SendBlocked_NoLoadingCheck(content) == ~Truthy(Trim(content))

SendBlocked(content) == ~Truthy(Trim(content)) \/ isLoading

\* the text of the user turn sendMessage appends for a send of `content`
UserTurn(content) == [role |-> "user", content |-> content]

\* The synchronous part of sendMessage(messageContent), up to the await.
\* `kind` and `opt` are history: who called it.
SendMessage(messageContent, kind, opt) ==
    LET content == Content(messageContent) IN
    IF SendBlocked(content)
    THEN UNCHANGED << messages, inputMessage, isLoading, inflight, origin, nextReq >>
    ELSE
        /\ nextReq <= MaxSends
        /\ messages' = Append(messages, UserTurn(content))
        /\ inputMessage' = IF ~Truthy(messageContent) THEN Empty ELSE inputMessage
        /\ isLoading' = TRUE
        /\ inflight' = inflight \cup
               { [req |-> nextReq, content |-> content, stale |-> ""] }
        /\ origin' = Append(origin,
               [kind |-> kind, req |-> nextReq, opt |-> opt,
                posted |-> content, stale |-> ""])
        /\ nextReq' = nextReq + 1

\* loadBot: the GET succeeded
LoadBotResolve ==
    /\ route = "/test-bot"
    /\ bot = NoBot
    /\ bot' = srvBot
    /\ messages' =
          IF Truthy(srvBot.greeting_message)
          THEN << [role |-> "assistant", content |-> srvBot.greeting_message] >>
          ELSE messages
    /\ origin' =
          IF Truthy(srvBot.greeting_message)
          THEN << [kind |-> "greeting", req |-> 0, opt |-> 0,
                   posted |-> Empty, stale |-> ""] >>
          ELSE origin
    /\ last' = "loadBot"
    /\ UNCHANGED << srvBot, route, inputMessage, isLoading, inputValue,
                    inflight, nextReq >>

\* loadBot: the GET failed
LoadBotReject ==
    /\ route = "/test-bot"
    /\ bot = NoBot
    /\ route' = "/dashboard"
    /\ last' = "loadBot.catch"
    /\ UNCHANGED << srvBot, bot, messages, inputMessage, isLoading,
                    inputValue, inflight, origin, nextReq >>

\* the widget exists once the bot is loaded
WidgetRendered == route = "/test-bot" /\ bot # NoBot

\* ChatWidget textarea onChange
TypeInput(t) ==
    /\ WidgetRendered
    /\ inputValue # t
    /\ inputValue' = t
    /\ last' = "onChange"
    /\ UNCHANGED << srvBot, bot, route, messages, inputMessage, isLoading,
                    inflight, origin, nextReq >>

\* ChatWidget.handleSendMessage (send button, or Enter in the textarea)
HandleSendMessage ==
    /\ WidgetRendered
    /\ IF Truthy(Trim(inputValue))
       THEN /\ SendMessage(inputValue, "typed", 0)
            /\ inputValue' = Empty
       ELSE UNCHANGED << messages, inputMessage, isLoading, inflight,
                         origin, nextReq, inputValue >>
    /\ last' = "handleSendMessage"
    /\ UNCHANGED << srvBot, bot, route >>

\* ChatWidget.handleMenuOptionClick(option) for the i-th button shown
HandleMenuOptionClick(i) ==
    /\ WidgetRendered
    /\ i \in 1..Len(MenuOffered)
    /\ SendMessage(MenuOffered[i].prompt, "menu", i)
    /\ last' = "handleMenuOptionClick"
    /\ UNCHANGED << srvBot, bot, route, inputValue >>

\* history: the requests pending at a Clear or Restart belong to the wiped
\* conversation; `by` names the handler that wiped it
MarkStale(reqs, by) ==
    { [r EXCEPT !.stale = IF r.stale = "" THEN by ELSE r.stale] : r \in reqs }

\* TestBot.clearChat: the history after it
ClearedMessages == <<>>

\* ChatWidget.handleClear -> TestBot.clearChat
HandleClear ==
    /\ WidgetRendered
    /\ messages' = ClearedMessages
    /\ origin' = <<>>
    /\ inputMessage' = Empty
    /\ inputValue' = Empty
    /\ inflight' = MarkStale(inflight, "clearChat")
    /\ last' = "clearChat"
    /\ UNCHANGED << srvBot, bot, route, isLoading, nextReq >>

\* ChatWidget.handleRestart -> TestBot.restartChat
HandleRestart ==
    /\ WidgetRendered
    /\ messages' =
          IF bot # NoBot /\ Truthy(bot.greeting_message)
          THEN << [role |-> "assistant", content |-> bot.greeting_message] >>
          ELSE ClearedMessages
    /\ origin' =
          IF bot # NoBot /\ Truthy(bot.greeting_message)
          THEN << [kind |-> "greeting", req |-> 0, opt |-> 0,
                   posted |-> Empty, stale |-> ""] >>
          ELSE <<>>
    /\ inputMessage' = Empty
    /\ inflight' = MarkStale(inflight, "restartChat")
    /\ last' = "restartChat"
    /\ UNCHANGED << srvBot, bot, route, isLoading, inputValue, nextReq >>

\* sendMessage after the await: the POST succeeded with `reply`
SendMessageResolve(r, reply) ==
    /\ r \in inflight
    /\ messages' = Append(messages, [role |-> "assistant", content |-> reply])
    /\ origin' = Append(origin,
           [kind |-> "reply", req |-> r.req, opt |-> 0,
            posted |-> Empty, stale |-> r.stale])
    /\ isLoading' = FALSE
    /\ inflight' = inflight \ {r}
    /\ last' = "sendMessage.then"
    /\ UNCHANGED << srvBot, bot, route, inputMessage, inputValue, nextReq >>

\* sendMessage's catch and finally, without the finally
SendMessageReject_NoFinally(r) ==
    /\ r \in inflight
    /\ messages' = Append(messages, errorMessage)
    /\ origin' = Append(origin,
           [kind |-> "fallback", req |-> r.req, opt |-> 0,
            posted |-> Empty, stale |-> r.stale])
    /\ inflight' = inflight \ {r}
    /\ last' = "sendMessage.catch"
    /\ UNCHANGED << srvBot, bot, route, inputMessage, inputValue, nextReq,
                    isLoading >>

\* sendMessage after the await: the POST failed (catch, then finally)
SendMessageReject(r) ==
    /\ r \in inflight
    /\ messages' = Append(messages, errorMessage)
    /\ origin' = Append(origin,
           [kind |-> "fallback", req |-> r.req, opt |-> 0,
            posted |-> Empty, stale |-> r.stale])
    /\ isLoading' = FALSE
    /\ inflight' = inflight \ {r}
    /\ last' = "sendMessage.catch"
    /\ UNCHANGED << srvBot, bot, route, inputMessage, inputValue, nextReq >>

(***************************************************************************)
(* Properties of the chat page.                                            *)
(***************************************************************************)
UserKinds == { "typed", "menu" }

AnswerKinds == { "reply", "fallback" }

\* C2: a click on a menu option posts the option's hidden prompt to the
\* backend and appends a user turn showing the option's display label
\* (option_name), not the prompt.
C2_MenuClickShowsLabel ==
    \A i \in 1..Len(messages) :
        origin[i].kind = "menu" =>
            /\ origin[i].posted = bot.menu_options[origin[i].opt].prompt
            /\ messages[i].content = bot.menu_options[origin[i].opt].option_name

\* C3: user turns stand in the history in the order they were sent, and
\* every answer of the current conversation stands directly after the user
\* turn it answers.
C3_TurnsInSendOrder ==
    /\ \A i, j \in 1..Len(messages) :
          (i < j /\ origin[i].kind \in UserKinds /\ origin[j].kind \in UserKinds)
              => origin[i].req < origin[j].req
    /\ \A i \in 1..Len(messages) :
          (origin[i].kind \in AnswerKinds /\ origin[i].stale = "") =>
              /\ i > 1
              /\ origin[i - 1].kind \in UserKinds
              /\ origin[i - 1].req = origin[i].req

\* a menu click and a typed message, both answered, the second sent after a
\* send was refused while the first was pending
C3_Witness ==
    /\ Len(messages) >= 4
    /\ \E i \in 1..Len(messages) : origin[i].kind = "menu" /\ origin[i].req = 1
    /\ origin[Len(messages) - 1].kind = "typed"
    /\ origin[Len(messages) - 1].req = 2
    /\ origin[Len(messages)].kind = "reply"

\* C5: a failed chat request appends exactly one assistant turn, the
\* fallback apology, and puts isLoading back to false with no request
\* left pending, so the session takes the next message.
C5_FailureIsFallbackTurn ==
    [][ last' = "sendMessage.catch" =>
            /\ messages' = Append(messages, errorMessage)
            /\ isLoading' = FALSE
            /\ inflight' = {} ]_chatVars

\* a message was sent and answered after a failed one
C5_Witness ==
    \E i \in 1..Len(messages) :
        /\ origin[i].kind = "fallback"
        /\ i + 2 <= Len(messages)
        /\ origin[i + 1].kind = "typed"
        /\ origin[i + 2].kind = "reply"

\* C6: right after Clear the history is empty, and no turn of the
\* conversation wiped by a Clear ever appears in the history.
C6_ClearWipesConversation ==
    /\ last = "clearChat" => messages = <<>>
    /\ \A i \in 1..Len(messages) : origin[i].stale # "clearChat"

\* the history Restart is documented to leave
GreetingOnly(b) ==
    IF Truthy(b.greeting_message)
    THEN << [role |-> "assistant", content |-> b.greeting_message] >>
    ELSE <<>>

\* C7: after Restart the history holds the greeting (if configured) and
\* nothing else, no turn of the session before the Restart appears in it,
\* and the bot's menu options are offered again.
C7_RestartShowsGreetingAndMenu ==
    /\ last = "restartChat" =>
          /\ messages = GreetingOnly(bot)
          /\ MenuOffered = bot.menu_options
    /\ \A i \in 1..Len(messages) : origin[i].stale # "restartChat"

\* C8: when the bot has loaded, the history is exactly the greeting (if
\* configured), the bot's menu options are offered, and with no options
\* nothing but the greeting is shown.
C8_SessionStart ==
    last = "loadBot" =>
        /\ messages = GreetingOnly(bot)
        /\ MenuOffered = bot.menu_options

\* C16: a user turn is appended and a chat request issued only for a
\* non-blank content while no chat request of the session is in flight, so
\* at most one chat request is in flight at any time.
C16_SingleRequestInFlight ==
    [][ /\ Cardinality(inflight') <= 1
        /\ (nextReq' # nextReq
              \/ { r.req : r \in inflight' } \ { r.req : r \in inflight } # {}
              \/ (Len(messages') > Len(messages)
                    /\ messages'[Len(messages')].role = "user")) =>
              /\ inflight = {}
              /\ ~isLoading
              /\ nextReq' = nextReq + 1
              /\ \E r \in inflight' :
                    /\ inflight' = { r }
                    /\ r.req = nextReq
                    /\ Truthy(Trim(r.content))
                    /\ messages' = Append(messages, UserTurn(r.content)) ]_chatVars

\* a typed send was refused while the request of a menu click was in flight
C16_Witness ==
    /\ last = "handleSendMessage"
    /\ Len(messages) >= 1
    /\ origin[Len(messages)].kind = "menu"
    /\ \E r \in inflight : r.req = origin[Len(messages)].req

\* C17: a non-blank message submitted in the widget is not lost: after
\* handleSendMessage it is the user turn appended to the history, or it is
\* still in the input box.
C17_SubmittedMessageNotLost ==
    [][ (last' = "handleSendMessage" /\ Truthy(Trim(inputValue))) =>
            \/ messages' = Append(messages, UserTurn(inputValue))
            \/ inputValue' = inputValue ]_chatVars

ChatInit ==
    /\ srvBot \in BotConfigs
    /\ bot = NoBot
    /\ route = "/test-bot"
    /\ messages = <<>>
    /\ inputMessage = Empty
    /\ isLoading = FALSE
    /\ inputValue = Empty
    /\ inflight = {}
    /\ origin = <<>>
    /\ nextReq = 1
    /\ last = "mount"


(***************************************************************************)
(* The vector store: chunk vectors per bot, search scoped to one bot.      *)
(* Vectors are the embedder's normalised outputs, so that the cosine       *)
(* similarity of two of them is their dot product.                         *)
(***************************************************************************)
Bots == { "A", "B" }

Vectors == { <<1, 0>>, <<0, 1>>, <<-1, 0>> }

ChunkIds == { 1, 2 }

DocIds == { 1, 2 }

SeqIndexes == { 1, 2 }

VARIABLES
    store,         \* the chunks held: records [bot, id, doc, seq, vec]
    ingest,        \* per bot and document: the state of its ingestion pipeline
    turn           \* the last chat turn: chunks retrieved (their number), answer, sources

storeVars == << store, ingest, turn >>

\* cosine similarity of two normalised vectors
Score(v, q) == v[1] * q[1] + v[2] * q[2]

\* the chunks one bot's search may see, without the bot filter
Scoped_Unfiltered(b) == store

\* the chunks one bot's search may see
Scoped(b) == { c \in store : c.bot = b }

\* higher score first; ties by sequence index, then document, then chunk id
Outranks(c, d, q) ==
    \/ Score(c.vec, q) > Score(d.vec, q)
    \/ /\ Score(c.vec, q) = Score(d.vec, q)
       /\ \/ c.seq < d.seq
          \/ c.seq = d.seq /\ c.doc < d.doc
          \/ c.seq = d.seq /\ c.doc = d.doc /\ c.id < d.id
          \/ c.seq = d.seq /\ c.doc = d.doc /\ c.id = d.id /\ c.bot < d.bot

RECURSIVE Rank(_, _)
Rank(S, q) ==
    IF S = {} THEN <<>>
    ELSE LET top == CHOOSE c \in S : \A d \in S \ {c} : Outranks(c, d, q)
         IN  << [chunk |-> top, score |-> Score(top.vec, q)] >>
                 \o Rank(S \ {top}, q)

\* a search that ignores top_k
Search_Unbounded(b, q, k) == Rank(Scoped(b), q)

\* search(bot_id, query_vector, top_k)
Search(b, q, k) ==
    LET ranked == Rank(Scoped(b), q)
    IN  SubSeq(ranked, 1, IF k < Len(ranked) THEN k ELSE Len(ranked))

\* upsert(bot_id, chunk_id, vector, metadata)
Upsert(b, id, doc, seq, v) ==
    LET kept == { c \in store : ~(c.bot = b /\ c.id = id) } IN
    /\ Cardinality(kept) < MaxChunks
    /\ store' = kept \cup { [bot |-> b, id |-> id, doc |-> doc, seq |-> seq, vec |-> v] }

\* delete(bot_id, document_id)
DeleteDoc(b, doc) ==
    store' = { c \in store : ~(c.bot = b /\ c.doc = doc) }

\* delete_bot(bot_id)
DeleteBotChunks(b) ==
    store' = { c \in store : c.bot # b }

\* no ingestion has started
NoIngest == [state |-> "none", total |-> 0, written |-> 0, had |-> FALSE]

\* no chat turn has been taken
NoTurn ==
    [bot |-> "", retrieved |-> 0, kind |-> "none", sources |-> <<>>,
     zero |-> FALSE]

StoreInit ==
    /\ store = {}
    /\ ingest = [b \in Bots, doc \in DocIds |-> NoIngest]
    /\ turn = NoTurn


\* C1: a search scoped to one bot never returns a chunk of another bot,
\* whatever the query vector and top_k, after any ingests and deletes.
C1_TenantIsolation ==
    \A a \in Bots : \A q \in Vectors : \A k \in 0..MaxTopK :
        \A i \in 1..Len(Search(a, q, k)) : Search(a, q, k)[i].chunk.bot = a

\* bot A's search returns a chunk although bot B holds one that scores higher
C1_Witness ==
    \E q \in Vectors :
        /\ Len(Search("A", q, MaxTopK)) >= 1
        /\ \E c \in store :
              /\ c.bot = "B"
              /\ Score(c.vec, q) > Search("A", q, MaxTopK)[1].score

(***************************************************************************)
(* Ingestion of one document: the pipeline writes the document's chunks    *)
(* one after the other, and rolls them back when it fails or is cancelled. *)
(***************************************************************************)
\* the chunks of one document held by the store
ChunksOf(b, doc) == { c \in store : c.bot = b /\ c.doc = doc }

\* the id of a document's chunk at one sequence index
ChunkIdOf(doc, seq) == MaxDocChunks * (doc - 1) + seq

\* rollback without effect
RolledBack_Nothing(b, doc) == store

\* rollback: delete any chunks already written for that document
RolledBack(b, doc) == { c \in store : ~(c.bot = b /\ c.doc = doc) }

\* a document is submitted: Loader and Chunker yield `total` chunk drafts
\* (an empty text yields zero)
StartIngest(b, doc, total) ==
    /\ ingest[b, doc].state = "none"
    /\ ingest' = [ingest EXCEPT ![b, doc] =
                      [state |-> "running", total |-> total, written |-> 0,
                       had |-> FALSE]]
    /\ UNCHANGED << store, turn >>

\* embed(text): the vector of a chunk is determined by its text
Embedded(doc, seq) == IF (doc + seq) % 2 = 0 THEN << 1, 0 >> ELSE << 0, 1 >>

\* the pipeline writes the next chunk of the document
WriteChunk(b, doc) ==
    /\ ingest[b, doc].state = "running"
    /\ ingest[b, doc].written < ingest[b, doc].total
    /\ Upsert(b, ChunkIdOf(doc, ingest[b, doc].written + 1), doc,
              ingest[b, doc].written + 1,
              Embedded(doc, ingest[b, doc].written + 1))
    /\ ingest' = [ingest EXCEPT ![b, doc].written = @ + 1]
    /\ UNCHANGED turn

\* every chunk is written: the document is ready
FinishIngest(b, doc) ==
    /\ ingest[b, doc].state = "running"
    /\ ingest[b, doc].written = ingest[b, doc].total
    /\ ingest' = [ingest EXCEPT ![b, doc].state = "ready"]
    /\ UNCHANGED << store, turn >>

\* the pipeline fails, or its caller abandons it: the chunks written so far
\* are rolled back (`had` keeps whether there were any)
AbortIngest(b, doc, how) ==
    /\ ingest[b, doc].state = "running"
    /\ store' = RolledBack(b, doc)
    /\ ingest' = [ingest EXCEPT ![b, doc] =
                      [state |-> how, total |-> 0, written |-> 0,
                       had |-> ingest[b, doc].written > 0]]
    /\ UNCHANGED turn

\* delete document that takes every chunk of the bot
DeleteDocument_WholeBot(b, doc) ==
    /\ ingest[b, doc].state = "ready"
    /\ DeleteBotChunks(b)
    /\ ingest' = [ingest EXCEPT ![b, doc] =
                      [state |-> "deleted", total |-> 0, written |-> 0,
                       had |-> ingest[b, doc].written > 0]]
    /\ UNCHANGED turn

\* Delete document {bot_id, document_id}: success for a document the bot holds
DeleteDocument(b, doc) ==
    /\ ingest[b, doc].state = "ready"
    /\ DeleteDoc(b, doc)
    /\ ingest' = [ingest EXCEPT ![b, doc] =
                      [state |-> "deleted", total |-> 0, written |-> 0,
                       had |-> ingest[b, doc].written > 0]]
    /\ UNCHANGED turn

(***************************************************************************)
(* A chat turn: Retriever, then Answer Composer.                           *)
(***************************************************************************)
\* the configurable relevance floors
MinScores == { 0, 1 }

\* retrieve(bot_id, query, top_k, min_score): search, then drop the results
\* below min_score
Retrieve(b, q, k, minScore) ==
    LET Clears(r) == r.score >= minScore IN SelectSeq(Search(b, q, k), Clears)

\* a composer that always lets the model answer
Compose_AlwaysGenerates(retrieved, llmOk) ==
    [kind |-> "generated",
     sources |-> [i \in 1..Len(retrieved) |-> retrieved[i].chunk]]

\* compose(...): no relevant context is handled explicitly; a failed model
\* call becomes an apology; otherwise the chunks passed in are cited
Compose(retrieved, llmOk) ==
    IF retrieved = <<>> THEN [kind |-> "no_information", sources |-> <<>>]
    ELSE IF ~llmOk THEN [kind |-> "apology", sources |-> <<>>]
    ELSE [kind |-> "generated",
          sources |-> [i \in 1..Len(retrieved) |-> retrieved[i].chunk]]

\* the bot has no document ingested or being ingested
ZeroDocuments(b) ==
    \A doc \in DocIds : ingest[b, doc].state \notin { "running", "ready" }

\* Chat turn {bot_id, message}: `zero` keeps whether the bot had no document
ChatTurn(b, q, k, minScore, llmOk) ==
    /\ turn' = [bot |-> b,
                retrieved |-> Len(Retrieve(b, q, k, minScore)),
                kind |-> Compose(Retrieve(b, q, k, minScore), llmOk).kind,
                sources |-> Compose(Retrieve(b, q, k, minScore), llmOk).sources,
                zero |-> ZeroDocuments(b)]
    /\ UNCHANGED << store, ingest >>

\* the documents whose ingestion was started
Started == { p \in Bots \X DocIds : ingest[p[1], p[2]].state # "none" }

(***************************************************************************)
(* Properties of ingestion, deletion, search and the chat turn.            *)
(***************************************************************************)
\* C11: ingestion of one document is atomic: once it has ended, a document
\* that became ready has all of its chunks, and one whose pipeline failed
\* or was cancelled has none (what was written is rolled back).
C11_IngestionAtomic ==
    \A b \in Bots, doc \in DocIds :
        /\ ingest[b, doc].state = "ready" =>
              Cardinality(ChunksOf(b, doc)) = ingest[b, doc].total
        /\ ingest[b, doc].state \in { "failed", "cancelled" } =>
              ChunksOf(b, doc) = {}

\* a pipeline was cancelled after it had written chunks, and another
\* document holds all of its chunks
C11_Witness ==
    \E b \in Bots, doc \in DocIds, c \in Bots, other \in DocIds :
        /\ ingest[b, doc].state = "cancelled"
        /\ ingest[b, doc].had
        /\ ingest[c, other].state = "ready"
        /\ ingest[c, other].total = MaxDocChunks

\* C12: deleting a document removes exactly its chunks: afterwards no
\* search returns a chunk of it, and every chunk of every other document,
\* of the same bot or another, is still stored, unchanged, and searchable.
C12_DeleteRemovesExactlyItsChunks ==
    [][ \A b \in Bots, doc \in DocIds :
          (ingest[b, doc].state = "ready" /\ ingest'[b, doc].state = "deleted") =>
              /\ \A q \in Vectors, k \in 0..MaxTopK :
                    \A i \in 1..Len(Search(b, q, k)') :
                        Search(b, q, k)'[i].chunk.doc # doc
              /\ store' \subseteq store
              /\ \A c \in store :
                    ~(c.bot = b /\ c.doc = doc) =>
                        /\ c \in store'
                        /\ \E q \in Vectors :
                              \E i \in 1..Len(Search(c.bot, q, MaxTopK)') :
                                  Search(c.bot, q, MaxTopK)'[i].chunk = c ]_storeVars

\* a document with chunks was deleted and a sibling document of the same
\* bot still holds its chunks
C12_Witness ==
    \E b \in Bots, doc \in DocIds, sibling \in DocIds :
        /\ ingest[b, doc].state = "deleted"
        /\ ingest[b, doc].had
        /\ ChunksOf(b, doc) = {}
        /\ sibling # doc
        /\ ingest[b, sibling].state = "ready"
        /\ ChunksOf(b, sibling) # {}

\* C13: a search returns at most top_k results, all of the bot's chunks
\* when there are fewer than top_k, each a stored chunk of the bot and none
\* twice (no padding).
C13_TopKBound ==
    \A b \in Bots, q \in Vectors, k \in 0..MaxTopK :
        LET found == Search(b, q, k)
            held == Cardinality(Scoped(b))
        IN  /\ Len(found) = IF k < held THEN k ELSE held
            /\ \A i \in 1..Len(found) : found[i].chunk \in Scoped(b)
            /\ \A i, j \in 1..Len(found) :
                  i # j => found[i].chunk # found[j].chunk

\* one bot holds fewer chunks than top_k and gets them all, the other holds
\* more than top_k and gets top_k
C13_Witness ==
    \E q \in Vectors :
        /\ Cardinality(Scoped("A")) = 1
        /\ Len(Search("A", q, MaxTopK)) = 1
        /\ Cardinality(Scoped("B")) = 2
        /\ Len(Search("B", q, 1)) = 1

\* C14: a chat turn against a bot with no document retrieves no chunk and
\* answers with the "no information" fallback and no sources.
C14_ZeroDocumentsFallback ==
    (turn.kind # "none" /\ turn.zero) =>
        /\ turn.retrieved = 0
        /\ turn.kind = "no_information"
        /\ turn.sources = <<>>

\* the turn's bot had lost its only document while the other bot holds chunks
C14_Witness ==
    /\ turn.zero
    /\ turn.kind = "no_information"
    /\ \E doc \in DocIds : ingest[turn.bot, doc].state = "deleted"
    /\ \E c \in store : c.bot # turn.bot

(***************************************************************************)
(* The dashboard's build form and the bot editor (EditBot, and the         *)
(* editor's earlier version without menu options), with the backend state  *)
(* their requests read and write.                                          *)
(***************************************************************************)
Pages == { "Dashboard", "EditBot", "EditBotOld" }

EditorPages == { "EditBot", "EditBotOld" }

Name == <<"n">>

Names == { <<" ">>, Name }

FileF == <<"f">>
FileG == <<"g">>

\* selectedFiles: null, or a FileList
FileChoices ==
    { [null |-> TRUE, list |-> <<>>],
      [null |-> FALSE, list |-> <<FileF, FileG>>] }

\* the urls textarea, one entry per line
UrlChoices == { <<>>, << <<"u">>, <<" ">>, <<" ", "v">> >> }

UrlPrefix == <<"U", "R", "L", ":", " ">>

\* error.response?.data?.detail of a failed request ("" when there is none)
Details == { "", "detail" }

NewOption == [option_name |-> Empty, prompt |-> Empty]

OptionFields == { "option_name", "prompt" }

\* what the user may type into a field of a menu option
FieldTexts == { <<"x">> }

VARIABLES
    page,              \* the component mounted
    botName,           \* form state
    selectedFiles,     \* form state
    urls,              \* form state
    avatarFile,        \* EditBot state: botAvatarFile is set
    menuOptions,       \* EditBot state: the option list shown in the editor
    existingDocuments, \* EditBot state: the documents listed
    botLoaded,         \* EditBot state: bot is not null
    bots,              \* Dashboard state: the number of bots listed
    isBusy,            \* isBuilding (Dashboard) or isLoading (EditBot)
    error,             \* the error banner, "" when none
    success,           \* the success banner, "" when none
    job,               \* the running handleBuildBot / handleUpdateBot
    loads,             \* pending GET requests of loadBot, loadExistingDocuments, loadBots
    delReqs,           \* pending DELETE requests: their document ids, in ascending order
    srvName,           \* backend: the bot's name
    srvOptions,        \* backend: the bot's menu_options
    srvDocs,           \* backend: the bot's documents
    srvNextDoc,        \* backend: the next document id
    srvBots,           \* backend: the number of the user's bots
    run,               \* history: what the last build/update run submitted, the
                       \* number of bots on the server when it started, and
                       \* the number of edits of the option list so far
    formLast           \* history: the handler that ran last, and its argument

formVars ==
    << page, botName, selectedFiles, urls, avatarFile, menuOptions,
       existingDocuments, botLoaded, bots, isBusy, error, success,
       job, loads, delReqs, srvName, srvOptions, srvDocs, srvNextDoc,
       srvBots, run, formLast >>

serverVars == << srvName, srvOptions, srvDocs, srvNextDoc, srvBots >>

IdleJob ==
    [pc |-> "idle", queue |-> <<>>, name |-> Empty, options |-> <<>>,
     alias |-> <<>>, payload |-> [has |-> FALSE, list |-> <<>>]]

\* history: a step no property singles out
Other == [op |-> "other", arg |-> 0]

NoRun ==
    [state |-> "none", n |-> 0, batch |-> <<>>, submitted |-> <<>>, shown |-> <<>>,
     edits |-> 0, before |-> 0]

\* error.response?.data?.detail || fallback
ErrorText(detail, fallback) == IF detail # "" THEN detail ELSE fallback

\* if (selectedFiles && selectedFiles.length > 0): the files to upload
FilesOf(sf) ==
    IF ~sf.null /\ Len(sf.list) > 0
    THEN [i \in 1..Len(sf.list) |-> [kind |-> "file", name |-> sf.list[i]]]
    ELSE <<>>

NonBlank(l) == Truthy(Trim(l))

\* urls.trim().split('\n').filter(url => url.trim())
UrlList(u) == SelectSeq(u, NonBlank)

\* the URL requests: each posts url.trim()
UrlsOf(u) ==
    [i \in 1..Len(UrlList(u)) |-> [kind |-> "url", name |-> Trim(UrlList(u)[i])]]

\* the ingest requests of one run, in the order the handler issues them
Batch(sf, u) == FilesOf(sf) \o UrlsOf(u)

\* whether the handler wraps the ingest request of this kind in its own
\* try/catch, so that its failure does not leave the loop
CatchesIngestFailure(pg, kind) == pg \in EditorPages /\ kind = "url"

\* backend: the filename of the document an ingest request creates
DocFilename(item) ==
    IF item.kind = "url" THEN UrlPrefix \o item.name ELSE item.name

\* backend, update rules: menu_options omitted keeps the options, a list
\* (the empty list included) replaces them
ApplyMenuOptions(old, payload) == IF payload.has THEN payload.list ELSE old

\* setExistingDocuments(prev => prev.filter(doc => doc.id !== documentId))
RemoveDocument_First(prev, documentId) == Tail(prev)

RemoveDocument(prev, documentId) ==
    LET Keep(doc) == doc.id # documentId IN SelectSeq(prev, Keep)

\* the form is rendered (EditBot shows a spinner while !bot && !error)
FormShown == page = "Dashboard" \/ botLoaded \/ error # ""

\* setTimeout(() => setSuccess(""), 3000) fires: every success banner of the
\* editor is set together with such a timer
SuccessTimeout ==
    /\ page \in EditorPages
    /\ success # ""
    /\ success' = ""
    /\ formLast' = Other
    /\ UNCHANGED << page, botName, selectedFiles, urls, avatarFile,
                    menuOptions, existingDocuments, botLoaded, bots, isBusy,
                    error, job, loads, delReqs, serverVars, run >>


(***************************************************************************)
(* handleBuildBot and handleUpdateBot: one run of the handler is a job     *)
(* that awaits its requests one after the other.                           *)
(***************************************************************************)
\* the loop goes on: the next ingest request of the queue is issued
IssueNext(queue) ==
    /\ job' = [job EXCEPT !.pc = "ingest", !.queue = queue]
    /\ run' = [run EXCEPT !.submitted = Append(@, queue[1])]
    /\ UNCHANGED << botName, selectedFiles, urls, isBusy, error, success,
                    loads >>

\* the end of the try block, then finally
JobSucceeds ==
    /\ job' = IdleJob
    /\ run' = [run EXCEPT !.state = "success"]
    /\ isBusy' = FALSE
    /\ IF page = "Dashboard"
       THEN /\ success' = "created"
            /\ botName' = Empty
            /\ selectedFiles' = [null |-> TRUE, list |-> <<>>]
            /\ urls' = <<>>
            /\ loads' = [loads EXCEPT !.bots = @ + 1]
            /\ UNCHANGED error
       ELSE /\ success' = "updated"
            /\ error' = ""
            /\ loads' = [loads EXCEPT !.bot = @ + 1]
            /\ botName' = botName
            /\ selectedFiles' =
                  IF page = "EditBotOld"
                  THEN [null |-> TRUE, list |-> <<>>] ELSE selectedFiles
            /\ urls' = IF page = "EditBotOld" THEN <<>> ELSE urls

\* the catch block, then finally
JobFails(detail) ==
    /\ job' = IdleJob
    /\ run' = [run EXCEPT !.state = "error"]
    /\ isBusy' = FALSE
    /\ error' = ErrorText(detail,
                    IF page = "Dashboard" THEN "Failed to create bot"
                    ELSE "Failed to update bot")
    /\ UNCHANGED << botName, selectedFiles, urls, success, loads >>

\* what the handler does once the requests before `queue` are settled
After(queue) == IF queue = <<>> THEN JobSucceeds ELSE IssueNext(queue)

\* Dashboard.handleBuildBot, up to its first await
HandleBuildBot ==
    /\ page = "Dashboard"
    /\ ~isBusy
    /\ ~(selectedFiles.null /\ UrlList(urls) = <<>>)
    /\ Truthy(Trim(botName))
    /\ isBusy' = TRUE
    /\ error' = ""
    /\ success' = ""
    /\ job' = [IdleJob EXCEPT !.pc = "bot", !.name = botName,
                              !.queue = Batch(selectedFiles, urls)]
    /\ run' = [state |-> "running", n |-> run.n + 1,
               batch |-> Batch(selectedFiles, urls), submitted |-> <<>>,
               shown |-> <<>>, edits |-> run.edits, before |-> srvBots]
    /\ formLast' = Other
    /\ UNCHANGED << page, botName, selectedFiles, urls, avatarFile,
                    menuOptions, existingDocuments, botLoaded, bots,
                    loads, delReqs, serverVars >>

\* EditBot.handleUpdateBot, up to its first await
HandleUpdateBot ==
    /\ page \in EditorPages
    /\ FormShown
    /\ ~isBusy
    /\ Truthy(Trim(botName))
    /\ isBusy' = TRUE
    /\ error' = ""
    /\ success' = ""
    /\ job' =
          IF page = "EditBot" /\ avatarFile
          THEN [IdleJob EXCEPT !.pc = "avatar", !.name = botName,
                               !.queue = Batch(selectedFiles, urls),
                               !.options = menuOptions,
                               !.alias = [i \in 1..Len(menuOptions) |-> i]]
          ELSE [IdleJob EXCEPT !.pc = "bot", !.name = botName,
                               !.queue = Batch(selectedFiles, urls),
                               !.payload = [has |-> page = "EditBot",
                                            list |-> menuOptions]]
    /\ run' = [state |-> "running", n |-> run.n + 1,
               batch |-> Batch(selectedFiles, urls), submitted |-> <<>>,
               shown |-> menuOptions, edits |-> run.edits,
               before |-> srvBots]
    /\ formLast' = Other
    /\ UNCHANGED << page, botName, selectedFiles, urls, avatarFile,
                    menuOptions, existingDocuments, botLoaded, bots,
                    loads, delReqs, serverVars >>

\* handleUpdateBot: the avatar upload settles; on success the PUT is issued
\* with the option array the handler holds
AvatarSettles(ok, detail) ==
    /\ job.pc = "avatar"
    /\ IF ok
       THEN /\ job' = [job EXCEPT !.pc = "bot", !.alias = <<>>, !.options = <<>>,
                                  !.payload = [has |-> TRUE, list |-> job.options]]
            /\ UNCHANGED << run, botName, selectedFiles, urls, isBusy,
                            error, success, loads >>
       ELSE JobFails(detail)
    /\ formLast' = Other
    /\ UNCHANGED << page, avatarFile, menuOptions, existingDocuments,
                    botLoaded, bots, delReqs, serverVars >>

\* the bot request settles: POST /api/bots (Dashboard) or PUT /api/bots/{id}
BotRequestSettles(ok, detail) ==
    /\ job.pc = "bot"
    /\ IF ok
       THEN /\ srvBots' = IF page = "Dashboard" THEN srvBots + 1 ELSE srvBots
            /\ srvName' = IF page = "Dashboard" THEN srvName ELSE job.name
            /\ srvOptions' =
                  IF page = "Dashboard" THEN srvOptions
                  ELSE ApplyMenuOptions(srvOptions, job.payload)
            /\ After(job.queue)
       ELSE /\ JobFails(detail)
            /\ UNCHANGED << srvBots, srvName, srvOptions >>
    /\ formLast' = IF ok THEN [op |-> "bot.ok", arg |-> 0] ELSE Other
    /\ UNCHANGED << page, avatarFile, menuOptions, existingDocuments,
                    botLoaded, bots, delReqs, srvDocs, srvNextDoc >>

\* the ingest request at the head of the queue settles
IngestSettles(ok, detail) ==
    /\ job.pc = "ingest"
    /\ LET item == job.queue[1] IN
       IF ok
       THEN /\ IF page \in EditorPages
               THEN /\ Len(srvDocs) < MaxDocs
                    /\ srvDocs' = Append(srvDocs,
                          [id |-> srvNextDoc, filename |-> DocFilename(item)])
                    /\ srvNextDoc' = srvNextDoc + 1
               ELSE UNCHANGED << srvDocs, srvNextDoc >>
            /\ After(Tail(job.queue))
       ELSE /\ UNCHANGED << srvDocs, srvNextDoc >>
            /\ IF CatchesIngestFailure(page, item.kind)
               THEN After(Tail(job.queue))
               ELSE JobFails(detail)
    /\ formLast' = Other
    /\ UNCHANGED << page, avatarFile, menuOptions, existingDocuments,
                    botLoaded, bots, delReqs, srvName, srvOptions, srvBots >>


(***************************************************************************)
(* EditBot: documents.                                                     *)
(***************************************************************************)
StartsWith(s, prefix) ==
    Len(s) >= Len(prefix) /\ SubSeq(s, 1, Len(prefix)) = prefix

IsUrlDocument(doc) == StartsWith(doc.filename, UrlPrefix)

\* the documents the editor lists with a delete button
Displayed(docs) == LET Shown(doc) == ~IsUrlDocument(doc) IN SelectSeq(docs, Shown)

\* urlDocuments.map(doc => doc.filename.substring(5)), one entry per line
ExtractUrls(docs) ==
    LET urlDocuments == SelectSeq(docs, IsUrlDocument)
    IN  [i \in 1..Len(urlDocuments) |->
            SubSeq(urlDocuments[i].filename, Len(UrlPrefix) + 1,
                   Len(urlDocuments[i].filename))]

\* a text of several lines has something left after trim()
AnyNonBlank(lines) == \E i \in 1..Len(lines) : NonBlank(lines[i])

\* the pending ids with one more, kept in ascending order
Inserted(ids, id) ==
    LET Below(x) == x <= id
        Above(x) == x > id
    IN  SelectSeq(ids, Below) \o << id >> \o SelectSeq(ids, Above)

\* handleDeleteDocument, up to its await
HandleDeleteDocument(i, confirmed) ==
    /\ page \in EditorPages
    /\ FormShown
    /\ i \in 1..Len(Displayed(existingDocuments))
    /\ IF confirmed
       THEN /\ Len(delReqs) < MaxPending
            /\ delReqs' = Inserted(delReqs, Displayed(existingDocuments)[i].id)
       ELSE UNCHANGED delReqs
    /\ formLast' = IF confirmed THEN Other
                    ELSE [op |-> "handleDeleteDocument.declined",
                          arg |-> Displayed(existingDocuments)[i].id]
    /\ UNCHANGED << page, botName, selectedFiles, urls, avatarFile,
                    menuOptions, existingDocuments, botLoaded, bots, isBusy,
                    error, success, job, loads, serverVars, run >>

\* backend: the bot holds the document
ServerHasDocument(id) == \E k \in 1..Len(srvDocs) : srvDocs[k].id = id

\* handleDeleteDocument after the await: the k-th pending DELETE settles
DeleteSettles(k, ok, detail) ==
    /\ k \in 1..Len(delReqs)
    /\ LET id == delReqs[k] IN
       /\ IF ok
          THEN /\ ServerHasDocument(id)
               /\ srvDocs' = RemoveDocument(srvDocs, id)
               /\ success' = "deleted"
                  /\ existingDocuments' = RemoveDocument(existingDocuments, id)
               /\ UNCHANGED error
          ELSE /\ error' = ErrorText(detail, "Failed to delete document")
               /\ UNCHANGED << srvDocs, success, existingDocuments >>
       /\ formLast' = [op |-> IF ok THEN "deleteDocument.ok"
                              ELSE "deleteDocument.fail", arg |-> id]
    /\ delReqs' = [j \in 1..(Len(delReqs) - 1) |->
                      IF j < k THEN delReqs[j] ELSE delReqs[j + 1]]
    /\ UNCHANGED << page, botName, selectedFiles, urls, avatarFile,
                    menuOptions, botLoaded, bots, isBusy, job, loads,
                    srvName, srvOptions, srvNextDoc, srvBots, run >>

(***************************************************************************)
(* Loading.                                                                *)
(***************************************************************************)
\* the array the handler of a pending update holds shares no object with
\* the array a reload puts into the editor
Unaliased(j) == [j EXCEPT !.alias = [i \in 1..Len(j.alias) |-> 0]]

\* EditBot.loadBot: GET /api/bots/{id} settles
LoadBotSettles(ok, detail) ==
    /\ page \in EditorPages
    /\ loads.bot > 0
    /\ IF ok
       THEN /\ botLoaded' = TRUE
            /\ botName' = srvName
            /\ menuOptions' = IF page = "EditBot" THEN srvOptions ELSE menuOptions
            /\ job' = IF page = "EditBot" THEN Unaliased(job) ELSE job
            /\ loads' = [loads EXCEPT !.bot = @ - 1, !.docs = @ + 1]
            /\ UNCHANGED error
       ELSE /\ error' = ErrorText(detail, "Failed to load bot")
            /\ loads' = [loads EXCEPT !.bot = @ - 1]
            /\ UNCHANGED << botLoaded, botName, menuOptions, job >>
    /\ formLast' = Other
    /\ UNCHANGED << page, selectedFiles, urls, avatarFile, existingDocuments,
                    bots, isBusy, success, delReqs, serverVars, run >>

\* the Retry button shown with the error while no bot is loaded
HandleRetryLoad ==
    /\ page \in EditorPages
    /\ ~botLoaded
    /\ error # ""
    /\ loads.bot < MaxPending
    /\ error' = ""
    /\ loads' = [loads EXCEPT !.bot = @ + 1]
    /\ formLast' = Other
    /\ UNCHANGED << page, botName, selectedFiles, urls, avatarFile,
                    menuOptions, existingDocuments, botLoaded, bots, isBusy,
                    success, job, delReqs, serverVars, run >>

\* loadExistingDocuments: GET /api/bots/{id}/documents settles
LoadDocumentsSettles(ok) ==
    /\ page \in EditorPages
    /\ loads.docs > 0
    /\ IF ok
       THEN /\ existingDocuments' = srvDocs
            /\ IF AnyNonBlank(ExtractUrls(srvDocs))
               THEN /\ urls' = ExtractUrls(srvDocs)
                    /\ loads' = [loads EXCEPT !.docs = @ - 1]
               ELSE /\ urls' = urls
                    /\ loads' = [loads EXCEPT !.docs = @ - 1, !.chunks = @ + 1]
       ELSE /\ loads' = [loads EXCEPT !.docs = @ - 1]
            /\ UNCHANGED << existingDocuments, urls >>
    /\ formLast' = Other
    /\ UNCHANGED << page, botName, selectedFiles, avatarFile, menuOptions,
                    botLoaded, bots, isBusy, error, success, job,
                    delReqs, serverVars, run >>

\* loadExistingDocuments, fallback: GET /api/bots/{id}/chunks settles; the
\* backend's chunks carry the filename of their document as source
LoadChunksSettles(ok) ==
    /\ page \in EditorPages
    /\ loads.chunks > 0
    /\ loads' = [loads EXCEPT !.chunks = @ - 1]
    /\ urls' = IF ok /\ AnyNonBlank(ExtractUrls(srvDocs))
               THEN ExtractUrls(srvDocs) ELSE urls
    /\ formLast' = Other
    /\ UNCHANGED << page, botName, selectedFiles, avatarFile, menuOptions,
                    existingDocuments, botLoaded, bots, isBusy, error,
                    success, job, delReqs, serverVars, run >>

\* Dashboard.loadBots: GET /api/bots/ settles
LoadBotsSettles(ok) ==
    /\ page = "Dashboard"
    /\ loads.bots > 0
    /\ loads' = [loads EXCEPT !.bots = @ - 1]
    /\ bots' = IF ok THEN srvBots ELSE bots
    /\ formLast' = Other
    /\ UNCHANGED << page, botName, selectedFiles, urls, avatarFile,
                    menuOptions, existingDocuments, botLoaded, isBusy, error,
                    success, job, delReqs, serverVars, run >>

(***************************************************************************)
(* EditBot: menu options.  handleMenuOptionChange writes into the option   *)
(* object itself; job.alias[k] is the place in menuOptions of the object   *)
(* the pending handleUpdateBot holds at place k (0: not in menuOptions).   *)
(***************************************************************************)
OptionsEditable == page = "EditBot" /\ FormShown

HandleAddMenuOption ==
    /\ OptionsEditable
    /\ Len(menuOptions) < MaxOptions
    /\ menuOptions' = Append(menuOptions, NewOption)
    /\ run' = [run EXCEPT !.edits = @ + 1]
    /\ formLast' = [op |-> "handleAddMenuOption", arg |-> 0]
    /\ UNCHANGED << page, botName, selectedFiles, urls, avatarFile,
                    existingDocuments, botLoaded, bots, isBusy, error,
                    success, job, loads, delReqs, serverVars >>

\* a splice that always takes the last entry
Splice_Last(options, index) == SubSeq(options, 1, Len(options) - 1)

\* newOptions.splice(index, 1)
Splice(options, index) ==
    [j \in 1..(Len(options) - 1) |->
        IF j < index THEN options[j] ELSE options[j + 1]]

HandleRemoveMenuOption(index) ==
    /\ OptionsEditable
    /\ index \in 1..Len(menuOptions)
    /\ menuOptions' = Splice(menuOptions, index)
    /\ job' = [job EXCEPT !.alias =
                  [k \in 1..Len(job.alias) |->
                      IF job.alias[k] = index THEN 0
                      ELSE IF job.alias[k] > index THEN job.alias[k] - 1
                      ELSE job.alias[k]]]
    /\ run' = [run EXCEPT !.edits = @ + 1]
    /\ formLast' = [op |-> "handleRemoveMenuOption", arg |-> index]
    /\ UNCHANGED << page, botName, selectedFiles, urls, avatarFile,
                    existingDocuments, botLoaded, bots, isBusy, error,
                    success, loads, delReqs, serverVars >>

HandleMenuOptionChange(index, field, value) ==
    /\ OptionsEditable
    /\ index \in 1..Len(menuOptions)
    /\ menuOptions[index][field] # value
    /\ menuOptions' = [menuOptions EXCEPT ![index][field] = value]
    /\ job' = [job EXCEPT !.options =
                  [k \in 1..Len(job.options) |->
                      IF job.alias[k] = index
                      THEN [job.options[k] EXCEPT ![field] = value]
                      ELSE job.options[k]]]
    /\ run' = [run EXCEPT !.edits = @ + 1]
    /\ formLast' = [op |-> "handleMenuOptionChange", arg |-> index]
    /\ UNCHANGED << page, botName, selectedFiles, urls, avatarFile,
                    existingDocuments, botLoaded, bots, isBusy, error,
                    success, loads, delReqs, serverVars >>

\* the avatar file input
SetBotAvatarFile(chosen) ==
    /\ OptionsEditable
    /\ avatarFile # chosen
    /\ avatarFile' = chosen
    /\ formLast' = Other
    /\ UNCHANGED << page, botName, selectedFiles, urls, menuOptions,
                    existingDocuments, botLoaded, bots, isBusy, error,
                    success, job, loads, delReqs, serverVars, run >>


(***************************************************************************)
(* Initial states and steps of the forms.                                  *)
(***************************************************************************)
DocF == [id |-> 1, filename |-> FileF]
DocU == [id |-> 2, filename |-> UrlPrefix \o <<"u">>]
DocG == [id |-> 3, filename |-> FileG]

\* the page as mounted: its first load is on its way
FormsMounted ==
    /\ botName = IF page = "Dashboard" THEN Name ELSE Empty
    /\ avatarFile = FALSE
    /\ menuOptions = <<>>
    /\ existingDocuments = <<>>
    /\ botLoaded = FALSE
    /\ bots = 0
    /\ isBusy = FALSE
    /\ error = ""
    /\ success = ""
    /\ job = IdleJob
    /\ loads = IF page = "Dashboard"
               THEN [bot |-> 0, docs |-> 0, chunks |-> 0, bots |-> 1]
               ELSE [bot |-> 1, docs |-> 0, chunks |-> 0, bots |-> 0]
    /\ delReqs = <<>>
    /\ srvName = Name
    /\ srvNextDoc = IF srvDocs = <<>> THEN 1 ELSE srvDocs[Len(srvDocs)].id + 1
    /\ srvBots = 0
    /\ run = NoRun
    /\ formLast = [op |-> "mount", arg |-> 0]

\* the forms before a page is opened
FormsRest ==
    /\ page = "Dashboard"
    /\ selectedFiles = [null |-> TRUE, list |-> <<>>]
    /\ urls = <<>>
    /\ srvOptions = <<>>
    /\ srvDocs = <<>>
    /\ FormsMounted

\* batches: a page with files and URLs chosen, a bot without documents
BatchInit ==
    /\ page \in Pages
    /\ selectedFiles \in FileChoices
    /\ urls \in UrlChoices
    /\ srvOptions = << OptPricing >>
    /\ srvDocs = <<>>
    /\ FormsMounted

\* documents: the editor of a bot with two files, with or without a URL
DocsInit ==
    /\ page \in EditorPages
    /\ selectedFiles = [null |-> TRUE, list |-> <<>>]
    /\ urls = <<>>
    /\ srvOptions = << OptPricing >>
    /\ srvDocs \in { << DocF, DocG >>, << DocF, DocU, DocG >> }
    /\ FormsMounted

\* menu options: the editor of a bot with one option and no documents
OptionsInit ==
    /\ page \in EditorPages
    /\ selectedFiles = [null |-> TRUE, list |-> <<>>]
    /\ urls = <<>>
    /\ srvOptions = << OptPricing >>
    /\ srvDocs = <<>>
    /\ FormsMounted

(***************************************************************************)
(* Properties of the forms.                                                *)
(***************************************************************************)
\* C4: in a batch of files and URLs, the failure of one ingest request
\* never keeps the remaining files and URLs from being submitted: a run
\* that reached its documents has submitted every one of them when it ends.
C4_FailedItemDoesNotBlockSiblings ==
    (run.state \in { "success", "error" } /\ run.submitted # <<>>)
        => run.submitted = run.batch

\* C9: an update that omits menu_options keeps the bot's options, an update
\* with a list (the empty list included) replaces them by that list, and a
\* save from the editor leaves the bot with the option list the editor
\* shows (the one shown when Update was clicked, or the one shown now).
C9_MenuOptionUpdateRules ==
    [][ (formLast'.op = "bot.ok" /\ page \in EditorPages) =>
            /\ ~job.payload.has => srvOptions' = srvOptions
            /\ job.payload.has => srvOptions' = job.payload.list
            /\ page = "EditBot" =>
                  (srvOptions' = run.shown \/ srvOptions' = menuOptions) ]_formVars

\* C10: a successful delete takes exactly that document out of the list
\* and keeps the others in their order; a failed delete leaves the list as
\* it is and sets an error; a declined confirmation sends no request and
\* changes nothing.
C10_DeleteDocumentFrame ==
    [][ /\ formLast'.op = "deleteDocument.ok" =>
              /\ \A i \in 1..Len(existingDocuments') :
                    existingDocuments'[i].id # formLast'.arg
              /\ LET Sibling(doc) == doc.id # formLast'.arg
                 IN  existingDocuments' = SelectSeq(existingDocuments, Sibling)
              /\ error' = error
        /\ formLast'.op = "deleteDocument.fail" =>
              /\ existingDocuments' = existingDocuments
              /\ error' # ""
        /\ formLast'.op = "handleDeleteDocument.declined" =>
              /\ delReqs' = delReqs
              /\ UNCHANGED << page, botName, selectedFiles, urls, avatarFile,
                              menuOptions, existingDocuments, botLoaded, bots,
                              isBusy, error, success, job, loads, serverVars >> ]_formVars

\* the second of two listed documents was deleted and the first is still listed
C10_Witness ==
    /\ formLast.op = "deleteDocument.ok"
    /\ formLast.arg = DocG.id
    /\ existingDocuments = << DocF, DocU >>


\* C15: Add appends one empty option at the end; Delete of index i removes
\* exactly the i-th option and keeps the others in their order; Edit of
\* (i, field) changes that field of the i-th option and nothing else.
C15_MenuOptionEditing ==
    [][ /\ formLast'.op = "handleAddMenuOption" =>
              menuOptions' = Append(menuOptions,
                                    [option_name |-> Empty, prompt |-> Empty])
        /\ formLast'.op = "handleRemoveMenuOption" =>
              /\ Len(menuOptions') = Len(menuOptions) - 1
              /\ \A j \in 1..Len(menuOptions') :
                    menuOptions'[j] =
                        IF j < formLast'.arg THEN menuOptions[j]
                        ELSE menuOptions[j + 1]
        /\ formLast'.op = "handleMenuOptionChange" =>
              /\ Len(menuOptions') = Len(menuOptions)
              /\ \A j \in 1..Len(menuOptions) :
                    j # formLast'.arg => menuOptions'[j] = menuOptions[j]
              /\ \E f \in OptionFields :
                    /\ menuOptions'[formLast'.arg][f] # menuOptions[formLast'.arg][f]
                    /\ \A g \in OptionFields \ { f } :
                          menuOptions'[formLast'.arg][g] = menuOptions[formLast'.arg][g]
      ]_formVars

\* the first of two options was deleted and the second, the added one, is left
C15_Witness ==
    /\ formLast = [op |-> "handleRemoveMenuOption", arg |-> 1]
    /\ menuOptions = << NewOption >>

\* C18: bot creation on the Dashboard is all-or-nothing.  When a run of
\* handleBuildBot ends with the error banner, the server holds no bot that
\* this run created (so a retry cannot leave two bots); when it ends with
\* success, the bot list is reloaded and the form is cleared.
C18_BuildAllOrNothing ==
    [][ (page = "Dashboard" /\ run.state = "running") =>
           /\ run'.state = "error" => srvBots' = run.before
           /\ run'.state = "success" =>
                 /\ loads'.bots = loads.bots + 1
                 /\ botName' = Empty
                 /\ selectedFiles'.null
                 /\ urls' = <<>>
      ]_formVars

\* C19: saving in the editor is idempotent with respect to ingestion.  No
\* ingest request of handleUpdateBot submits a document the bot already
\* holds, the URLs pre-filled from the bot's URL documents included.
C19_SaveIdempotentForIngestion ==
    [][ (page \in EditorPages /\ run'.n = run.n
            /\ Len(run'.submitted) = Len(run.submitted) + 1) =>
           \A k \in 1..Len(srvDocs) :
              srvDocs[k].filename
                 # DocFilename(run'.submitted[Len(run'.submitted)])
      ]_formVars

(***************************************************************************)
(* Signing in and out: the router, the login page, the useAuth hook of the *)
(* dashboard and the editor, and handleLogout of the dashboard, the editor *)
(* and the chat page.  The Supabase client is the environment: it holds a  *)
(* session or none, a failed signOut leaves its session in place, and      *)
(* getSession resolves with the session it holds when it resolves.         *)
(***************************************************************************)
MaxSignOuts == 2

MaxOrphans == 1

\* the access tokens the Supabase client issues, numbered from 1
MaxTokens == 2

\* the routes of AppRouter that take part in signing in and out
Routes == { "/", "/dashboard", "/edit-bot", "/test-bot" }

\* the pages that call useAuth()
AuthPages == { "/dashboard", "/edit-bot" }

\* the pages that read the bot id from the query string
BotPages == { "/edit-bot", "/test-bot" }

VARIABLES
    location,      \* the route shown
    botId,         \* the URL shown carries ?id=
    token,         \* localStorage 'supabase_token': an access token, 0 when absent
    clientSession, \* the access token of the session the Supabase client
                   \* holds, 0 when it holds none
    issued,        \* the access token of the most recent session, 0 before the first
    authLoading,   \* useAuth of the page shown: loading (its getSession() is pending)
    user,          \* useAuth of the page shown: user is not null
    orphans,       \* pending getSession() calls of pages no longer shown
    signIn,        \* handleLogin awaits signInWithPassword
    signOuts,      \* the runs of handleLogout that await signOut
    request,       \* history: the bot-data request the last step sent, if any
    loggedOut,     \* history: a confirmed logout has ended, no login since
    authLast       \* history: the step taken last

authVars ==
    << location, botId, token, clientSession, issued, authLoading, user,
       orphans, signIn, signOuts, request, loggedOut, authLast >>

\* the api client's request interceptor:
\* if (token) config.headers.Authorization = `Bearer ${token}`
Authorization(tok) ==
    IF tok # 0 THEN [has |-> TRUE, bearer |-> tok]
    ELSE [has |-> FALSE, bearer |-> 0]

NoRequest ==
    [call |-> "none", page |-> "", signedIn |-> FALSE, loading |-> FALSE,
     user |-> FALSE, headers |-> Authorization(0)]

\* client.get('/api/bots/') of loadBots, client.get(`/api/bots/${botId}`) of
\* loadBot: what the request carries, and the auth state it was sent in
Req(call, path, sess, loading, usr, tok) ==
    [call |-> call, page |-> path, signedIn |-> sess # 0, loading |-> loading,
     user |-> usr, headers |-> Authorization(tok)]

\* the app before anyone signs in, at the login page
AuthInit ==
    /\ location = "/"
    /\ botId = FALSE
    /\ token = 0
    /\ clientSession = 0
    /\ issued = 0
    /\ authLoading = FALSE
    /\ user = FALSE
    /\ orphans = 0
    /\ signIn = FALSE
    /\ signOuts = 0
    /\ request = NoRequest
    /\ loggedOut = FALSE
    /\ authLast = "mount"

\* the app opened at any route of AppRouter, by a browser that holds a
\* session or none, after the mount effects of the page: useAuth starts with
\* loading = true, TestBot without a bot id is the dashboard, TestBot with
\* one has called loadBot
AuthOpen ==
    /\ location \in Routes
    /\ botId \in BOOLEAN
    /\ location \notin BotPages => ~botId
    /\ location = "/test-bot" => botId
    /\ clientSession \in { 0, 1 }
    /\ issued = clientSession
    /\ token \in { 0, clientSession }
    /\ authLoading = (location \in AuthPages)
    /\ user = FALSE
    /\ orphans = 0
    /\ signIn = FALSE
    /\ signOuts = 0
    /\ request = IF location = "/test-bot"
                 THEN Req("loadBot", location, clientSession, FALSE, FALSE, token)
                 ELSE NoRequest
    /\ loggedOut = FALSE
    /\ authLast = "mount"

\* the router shows the page of `path`: the page shown is unmounted (its
\* listener unsubscribed, its getSession, if `pending`, left to resolve on
\* its own) and the new page is mounted: useAuth starts with loading = true
\* and calls getSession, TestBot calls loadBot at once
Mount(path, pending, sess, tok) ==
    /\ location' = path
    /\ IF path = location
       THEN /\ UNCHANGED << botId, authLoading, user, orphans >>
            /\ request' = NoRequest
       ELSE /\ botId' = (path \in BotPages)
            /\ authLoading' = (path \in AuthPages)
            /\ user' = FALSE
            /\ orphans' = IF pending THEN orphans + 1 ELSE orphans
            /\ request' = IF path = "/test-bot"
                          THEN Req("loadBot", path, sess, FALSE, FALSE, tok)
                          ELSE NoRequest

\* navigate(path) from a handler
GoTo(path, sess, tok) == Mount(path, authLoading, sess, tok)

\* Login.handleLogin, up to its await
HandleLogin ==
    /\ location = "/"
    /\ ~signIn
    /\ signIn' = TRUE
    /\ request' = NoRequest
    /\ authLast' = "handleLogin"
    /\ UNCHANGED << location, botId, token, clientSession, issued,
                    authLoading, user, orphans, signOuts, loggedOut >>

\* Login.handleLogin after the await: signInWithPassword settles
SignInSettles(ok) ==
    /\ signIn
    /\ signIn' = FALSE
    /\ IF ok
       THEN /\ issued' = issued + 1
            /\ clientSession' = issued + 1
            /\ token' = issued + 1
            /\ GoTo("/dashboard", issued + 1, issued + 1)
            /\ loggedOut' = FALSE
       ELSE /\ request' = NoRequest
            /\ UNCHANGED << issued, clientSession, token, location, botId,
                            authLoading, user, orphans, loggedOut >>
    /\ authLast' = IF ok THEN "signIn.ok" ELSE "signIn.fail"
    /\ UNCHANGED signOuts

\* the effect of the page shown on [user, loading], run with the values the
\* hook has just set.
\* Dashboard: if (!loading && !user) navigate("/") ... if (user) loadBots()
\* EditBot: if (loading) return; if (!user) navigate("/");
\*          if (!botId) navigate("/dashboard"); loadBot()
AuthEffect(loadingNow, userNow, sess, tok) ==
    LET Stay(req) ==
            /\ authLoading' = loadingNow
            /\ user' = userNow
            /\ request' = req
            /\ UNCHANGED << location, botId, orphans >>
    IN  IF location = "/dashboard"
        THEN IF ~loadingNow /\ ~userNow
             THEN Mount("/", FALSE, sess, tok)
             ELSE Stay(IF userNow
                       THEN Req("loadBots", location, sess, loadingNow, userNow, tok)
                       ELSE NoRequest)
        ELSE IF loadingNow THEN Stay(NoRequest)
             ELSE IF ~userNow THEN Mount("/", FALSE, sess, tok)
             ELSE IF ~botId THEN Mount("/dashboard", FALSE, sess, tok)
             ELSE Stay(Req("loadBot", location, sess, loadingNow, userNow, tok))

\* if (session) localStorage.setItem('supabase_token', session.access_token)
Stored(tok, session) == IF session # 0 THEN session ELSE tok

\* useAuth: getSession() of the page shown resolves
GetSessionSettles ==
    /\ location \in AuthPages
    /\ authLoading
    /\ token' = Stored(token, clientSession)
    /\ AuthEffect(FALSE, clientSession # 0, clientSession,
                  Stored(token, clientSession))
    /\ authLast' = "getSession"
    /\ UNCHANGED << clientSession, issued, signIn, signOuts, loggedOut >>

\* useAuth: getSession() of a page no longer shown resolves; its setState
\* calls have no effect, its localStorage.setItem has
OrphanGetSessionSettles ==
    /\ orphans > 0
    /\ orphans' = orphans - 1
    /\ token' = Stored(token, clientSession)
    /\ request' = NoRequest
    /\ authLast' = "getSession.orphan"
    /\ UNCHANGED << location, botId, clientSession, issued, authLoading, user,
                    signIn, signOuts, loggedOut >>

\* the Supabase client changes its auth state: it refreshes its session (a
\* new access token) or loses it.  The onAuthStateChange listener of useAuth
\* is called if the page shown has one: it sets or removes the token, and
\* the page's effect runs on the new user
OnAuthStateChange(hasSession) ==
    /\ clientSession # 0
    /\ issued' = IF hasSession THEN issued + 1 ELSE issued
    /\ clientSession' = IF hasSession THEN issued + 1 ELSE 0
    /\ IF location \in AuthPages
       THEN /\ token' = (IF hasSession THEN issued + 1 ELSE 0)
            /\ AuthEffect(authLoading, hasSession,
                          IF hasSession THEN issued + 1 ELSE 0,
                          IF hasSession THEN issued + 1 ELSE 0)
       ELSE /\ request' = NoRequest
            /\ UNCHANGED << token, location, botId, authLoading, user, orphans >>
    /\ authLast' = "onAuthStateChange"
    /\ UNCHANGED << signIn, signOuts, loggedOut >>

\* the page shown renders its header with the logout button
LogoutShown ==
    \/ location = "/test-bot"
    \/ location \in AuthPages /\ ~authLoading

\* the dashboard's Test and Edit buttons, the Back buttons of the other pages
Navigate(to) ==
    /\ LogoutShown
    /\ \/ location = "/dashboard" /\ to \in { "/test-bot", "/edit-bot" }
       \/ location \in { "/test-bot", "/edit-bot" } /\ to = "/dashboard"
    /\ GoTo(to, clientSession, token)
    /\ authLast' = "navigate"
    /\ UNCHANGED << token, clientSession, issued, signIn, signOuts, loggedOut >>

\* handleLogout, up to its await
HandleLogout(confirmed) ==
    /\ LogoutShown
    /\ signOuts' = IF confirmed THEN signOuts + 1 ELSE signOuts
    /\ request' = NoRequest
    /\ authLast' = IF confirmed THEN "handleLogout" ELSE "handleLogout.declined"
    /\ UNCHANGED << location, botId, token, clientSession, issued,
                    authLoading, user, orphans, signIn, loggedOut >>

\* handleLogout after the await: signOut resolves, or throws into the catch
SignOutSettles(ok) ==
    /\ signOuts > 0
    /\ signOuts' = signOuts - 1
    /\ clientSession' = IF ok THEN 0 ELSE clientSession
    /\ token' = 0
    /\ GoTo("/", IF ok THEN 0 ELSE clientSession, 0)
    /\ loggedOut' = TRUE
    /\ authLast' = "signOut.settles"
    /\ UNCHANGED << issued, signIn >>

\* C20: logout.  When a confirmed handleLogout ends, whether signOut
\* succeeded or threw, the token is gone from localStorage and the route is
\* "/"; from then on, until the next login, no completion of getSession or of
\* onAuthStateChange puts a token back; a declined confirmation changes
\* neither the token nor the route.
C20_Logout ==
    [][ /\ authLast' = "signOut.settles" => (token' = 0 /\ location' = "/")
        /\ authLast' = "handleLogout.declined" =>
              (token' = token /\ location' = location)
        /\ loggedOut' => token' = 0
      ]_authVars

\* C21: no protected page requests bot data while no user is signed in.
\* Every loadBots / loadBot request is sent with a session held, and by a
\* page whose auth loading has finished.
C21_NoBotDataWithoutUser ==
    request.call # "none" => (request.signedIn /\ ~request.loading)

\* C22: token and session agree.  The stored token is absent or the access
\* token of the most recent session; a failed login stores no token and does
\* not navigate; an auth-state change to signed-out removes the token; a
\* request carries Authorization: Bearer <token> exactly when a token is
\* stored.
C22_TokenSessionConsistency ==
    [][ /\ token' = 0 \/ token' = issued'
        /\ authLast' = "signIn.fail" =>
              (token' = token /\ location' = location)
        /\ (authLast' = "onAuthStateChange" /\ clientSession' = 0) => token' = 0
        /\ request'.call # "none" =>
              /\ request'.headers.has = (token' # 0)
              /\ request'.headers.has => request'.headers.bearer = token'
      ]_authVars

(***************************************************************************)
(* Signup: the form, the success view and its redirect countdown.  The     *)
(* interval timer handleSignup starts is not tied to the component: it     *)
(* goes on after the page is left.  React evaluates a state updater of a   *)
(* component that is no longer mounted only when the hook has no update    *)
(* waiting, and never renders the result.                                  *)
(***************************************************************************)
MaxVisits == 2

\* useState(5)
CountdownStart == 5

VARIABLES
    signupPath,    \* the route shown: "/signup" or "/"
    visit,         \* the number of times the signup page was mounted
    signups,       \* per mount of the signup page: its state as last
                   \* rendered, its handleSignup, its timer, and the
                   \* number of navigate("/") calls of its success flow
    signupLast     \* history: the step taken last, and the mount it belongs to

signupVars == << signupPath, visit, signups, signupLast >>

\* a mount that has not happened
NoSignup ==
    [pc |-> "none", success |-> FALSE, error |-> "", countdown |-> CountdownStart,
     timer |-> "none", queued |-> FALSE, navs |-> 0]

\* the state of the signup page when mounted
FreshSignup == [NoSignup EXCEPT !.pc = "idle"]

\* the page of mount v is on screen
Mounted(v) == signupPath = "/signup" /\ visit = v

\* the app at the login page, the signup page never opened
SignupRest ==
    /\ signupPath = "/"
    /\ visit = 0
    /\ signups = [v \in 1..MaxVisits |-> NoSignup]
    /\ signupLast = [op |-> "mount", v |-> 0]

\* the signup page opened
SignupInit ==
    /\ signupPath = "/signup"
    /\ visit = 1
    /\ signups = [v \in 1..MaxVisits |-> IF v = 1 THEN FreshSignup ELSE NoSignup]
    /\ signupLast = [op |-> "mount", v |-> 1]

\* Login: navigate('/signup')
OpenSignup ==
    /\ signupPath = "/"
    /\ signupPath' = "/signup"
    /\ visit' = visit + 1
    /\ signups' = [signups EXCEPT ![visit + 1] = FreshSignup]
    /\ signupLast' = [op |-> "open", v |-> visit + 1]

\* the form's link "Sign in here"
SignInHere ==
    /\ Mounted(visit)
    /\ ~signups[visit].success
    /\ signupPath' = "/"
    /\ signupLast' = [op |-> "signInHere", v |-> visit]
    /\ UNCHANGED << visit, signups >>

\* Signup.handleSignup, up to its await (the button is disabled while loading)
HandleSignup ==
    /\ Mounted(visit)
    /\ ~signups[visit].success
    /\ signups[visit].pc = "idle"
    /\ signups' = [signups EXCEPT ![visit].pc = "awaiting", ![visit].error = ""]
    /\ signupLast' = [op |-> "handleSignup", v |-> visit]
    /\ UNCHANGED << signupPath, visit >>

\* Signup.handleSignup after the await: signUp resolves without an error
\* ("ok"), resolves with one ("error"), or throws ("throws").  The setState
\* calls of a page that was left are queued and never rendered.
SignUpSettles(v, outcome) ==
    /\ signups[v].pc = "awaiting"
    /\ signups' =
          [signups EXCEPT ![v] =
              [@ EXCEPT !.pc = "idle",
                        !.success = IF Mounted(v) THEN outcome = "ok" ELSE @,
                        !.error = IF ~Mounted(v) \/ outcome = "ok" THEN @
                                  ELSE IF outcome = "error" THEN "message"
                                  ELSE "failed",
                        !.timer = IF outcome = "ok" THEN "running" ELSE @,
                        !.queued = ~Mounted(v)]]
    /\ signupLast' = [op |-> IF outcome = "ok" THEN "signUp.ok" ELSE "signUp.fail",
                      v |-> v]
    /\ UNCHANGED << signupPath, visit >>

\* the updater of the interval: prev <= 1 ? 0 : prev - 1
CountdownUpdater(prev) == IF prev <= 1 THEN 0 ELSE prev - 1

\* the updater's branch that clears the timer and navigates
UpdaterRedirects(prev) == prev <= 1

\* the interval of mount v fires: setCountdown(prev => ...).  The updater
\* is evaluated on the state last rendered, unless the page was left and an
\* earlier update of its hook still waits.
Tick(v) ==
    /\ signups[v].timer = "running"
    /\ LET s == signups[v]
           evaluated == Mounted(v) \/ ~s.queued
           redirects == evaluated /\ UpdaterRedirects(s.countdown)
       IN  /\ signups' =
                 [signups EXCEPT ![v] =
                     [s EXCEPT !.countdown = IF Mounted(v)
                                             THEN CountdownUpdater(s.countdown)
                                             ELSE @,
                               !.timer = IF redirects THEN "cleared" ELSE @,
                               !.queued = ~Mounted(v),
                               !.navs = IF redirects THEN @ + 1 ELSE @]]
           /\ signupPath' = IF redirects THEN "/" ELSE signupPath
    /\ signupLast' = [op |-> "tick", v |-> v]
    /\ UNCHANGED visit

\* the success view's button "Go to Login Now"
GoToLoginNow ==
    /\ Mounted(visit)
    /\ signups[visit].success
    /\ signupPath' = "/"
    /\ signups' = [signups EXCEPT ![visit].navs = @ + 1]
    /\ signupLast' = [op |-> "goToLoginNow", v |-> visit]
    /\ UNCHANGED visit

\* C23: the signup redirect countdown.  After a successful signup the
\* countdown starts at 5; each tick of the page's timer lowers it by exactly
\* one, never below 0, and the tick that brings it to 0 clears the timer and
\* navigates to "/"; a signup navigates to "/" at most once, also when the
\* user clicks "Go to Login Now" first; a failed signup starts no timer and
\* sets the error message.
C23_SignupCountdown ==
    [][ \A v \in 1..MaxVisits :
          /\ signups'[v].navs <= 1
          /\ (~signups[v].success /\ signups'[v].success) =>
                (signups'[v].countdown = 5 /\ signups'[v].timer = "running")
          /\ (signupLast' = [op |-> "tick", v |-> v] /\ Mounted(v)) =>
                /\ signups'[v].countdown = signups[v].countdown - 1
                /\ signups'[v].countdown >= 0
                /\ signups'[v].countdown = 0 =>
                      (signups'[v].timer = "cleared" /\ signupPath' = "/")
          /\ (signupLast' = [op |-> "signUp.fail", v |-> v] /\ Mounted(v)) =>
                (signups'[v].timer = "none" /\ signups'[v].error # "")
      ]_signupVars

(***************************************************************************)
(* Themes: themeConfigs, the useTheme hook and the ThemeWidget.  Every     *)
(* component that calls useTheme has a hook state of its own; they share   *)
(* the localStorage item 'theme'.                                          *)
(***************************************************************************)
\* the ids of ThemeWidget's themes
WidgetThemes == { "default", "dark", "purple", "green" }

\* what localStorage 'theme' may hold when the app starts: a widget id, the
\* empty string, a name of no theme, the name of a member every object has
StoredThemes == WidgetThemes \cup { "", "blue", "constructor" }

\* interface ThemeConfig: the keys of colors
ThemeConfigShape ==
    [colors |->
        [background |-> { "from", "via", "to" },
         primary |-> { "from", "to" },
         text |-> { "primary", "secondary", "muted" },
         surface |-> { "card", "border", "glass" },
         decorative |-> { "primary", "secondary", "tertiary" }]]

\* themeConfigs.default, by the keys it defines
DefaultConfig ==
    [colors |->
        [background |-> { "from", "via", "to" },
         primary |-> { "from", "to" },
         text |-> { "primary", "secondary", "muted" },
         surface |-> { "card", "border", "glass" },
         decorative |-> { "primary", "secondary", "tertiary" }]]

Undefined == [undefined |-> TRUE]

\* themeConfigs is an object literal: besides its own key it answers to the
\* members it inherits from Object.prototype
ObjectPrototypeKeys == { "constructor", "toString", "valueOf", "hasOwnProperty" }

\* themeConfigs[name]
ThemeConfigs(name) ==
    IF name = "default" THEN DefaultConfig
    ELSE IF name \in ObjectPrototypeKeys THEN [function |-> name]
    ELSE Undefined

\* themeConfigs[currentTheme] || themeConfigs.default
ThemeConfigOf(currentTheme) ==
    IF ThemeConfigs(currentTheme) # Undefined
    THEN ThemeConfigs(currentTheme) ELSE ThemeConfigs("default")

\* a value that has every key of ThemeConfig
FullyDefined(config) ==
    /\ "colors" \in DOMAIN config
    /\ config.colors = ThemeConfigShape.colors

\* the components that call useTheme: a page, and the widget
Hooks == { "page", "widget" }

VARIABLES
    themeItem,     \* localStorage 'theme': whether it is set, and its value
    hooks,         \* per component: mounted, currentTheme, and whether its
                   \* mount effect has still to run
    lastSet,       \* history: the argument of the last setTheme, "none" before
    themeLast      \* history: the step taken last, and its component

themeVars == << themeItem, hooks, lastSet, themeLast >>

NoItem == [has |-> FALSE, value |-> ""]

\* useState<string>('default'), before the mount effect
FreshHook == [mounted |-> TRUE, currentTheme |-> "default", pending |-> TRUE]

NoHook == [mounted |-> FALSE, currentTheme |-> "default", pending |-> FALSE]

\* no component mounted, nothing stored
ThemeRest ==
    /\ themeItem = NoItem
    /\ hooks = [h \in Hooks |-> NoHook]
    /\ lastSet = "none"
    /\ themeLast = [op |-> "none", hook |-> ""]

\* the app opened by a browser whose localStorage holds any item or none
ThemeInit ==
    /\ themeItem \in { NoItem } \cup { [has |-> TRUE, value |-> t] : t \in StoredThemes }
    /\ hooks = [h \in Hooks |-> NoHook]
    /\ lastSet = "none"
    /\ themeLast = [op |-> "none", hook |-> ""]

\* localStorage.getItem('theme') || 'default'
SavedTheme(item) == IF item.has /\ item.value # "" THEN item.value ELSE "default"

\* a component that calls useTheme is mounted
MountUseTheme(h) ==
    /\ ~hooks[h].mounted
    /\ hooks' = [hooks EXCEPT ![h] = FreshHook]
    /\ themeLast' = [op |-> "mount", hook |-> h]
    /\ UNCHANGED << themeItem, lastSet >>

\* the component is unmounted
UnmountUseTheme(h) ==
    /\ hooks[h].mounted
    /\ hooks' = [hooks EXCEPT ![h] = NoHook]
    /\ themeLast' = [op |-> "unmount", hook |-> h]
    /\ UNCHANGED << themeItem, lastSet >>

\* useTheme: the mount effect
ThemeEffect(h) ==
    /\ hooks[h].mounted
    /\ hooks[h].pending
    /\ hooks' = [hooks EXCEPT ![h].currentTheme = SavedTheme(themeItem),
                              ![h].pending = FALSE]
    /\ themeLast' = [op |-> "effect", hook |-> h]
    /\ UNCHANGED << themeItem, lastSet >>

\* useTheme.setTheme, called by a button of the ThemeWidget
SetTheme(theme) ==
    /\ hooks["widget"].mounted
    /\ ~hooks["widget"].pending
    /\ hooks' = [hooks EXCEPT !["widget"].currentTheme = theme]
    /\ themeItem' = [has |-> TRUE, value |-> theme]
    /\ lastSet' = theme
    /\ themeLast' = [op |-> "setTheme", hook |-> "widget"]

\* C24: theme selection.  Whatever name is stored, useTheme returns a fully
\* defined themeConfig, the default config for every name but "default";
\* and the mount effect of a fresh useTheme after setTheme(t) yields
\* currentTheme = t.
C24_ThemeSelection ==
    /\ \A h \in Hooks :
          hooks[h].mounted =>
             /\ FullyDefined(ThemeConfigOf(hooks[h].currentTheme))
             /\ ThemeConfigOf(hooks[h].currentTheme) = DefaultConfig
    /\ (themeLast.op = "effect" /\ lastSet # "none") =>
          hooks[themeLast.hook].currentTheme = lastSet

(***************************************************************************)
(* Specifications: one per part of the program, the other parts at rest.   *)
(***************************************************************************)
vars == << chatVars, storeVars, formVars, authVars, signupVars, themeVars >>

\* the chat page before its bot is chosen
ChatRest ==
    ChatInit /\ srvBot = [greeting_message |-> Empty, menu_options |-> <<>>]

InitChat == ChatInit /\ StoreInit /\ FormsRest /\ AuthInit /\ SignupRest /\ ThemeRest

NextChat ==
    \/ LoadBotResolve
       /\ UNCHANGED << storeVars, formVars, authVars, signupVars, themeVars >>
    \/ LoadBotReject
       /\ UNCHANGED << storeVars, formVars, authVars, signupVars, themeVars >>
    \/ \E t \in Inputs : TypeInput(t)
       /\ UNCHANGED << storeVars, formVars, authVars, signupVars, themeVars >>
    \/ HandleSendMessage
       /\ UNCHANGED << storeVars, formVars, authVars, signupVars, themeVars >>
    \/ \E i \in 1..2 : HandleMenuOptionClick(i)
       /\ UNCHANGED << storeVars, formVars, authVars, signupVars, themeVars >>
    \/ HandleClear
       /\ UNCHANGED << storeVars, formVars, authVars, signupVars, themeVars >>
    \/ HandleRestart
       /\ UNCHANGED << storeVars, formVars, authVars, signupVars, themeVars >>
    \/ \E r \in inflight : \E reply \in Replies : SendMessageResolve(r, reply)
       /\ UNCHANGED << storeVars, formVars, authVars, signupVars, themeVars >>
    \/ \E r \in inflight : SendMessageReject(r)
       /\ UNCHANGED << storeVars, formVars, authVars, signupVars, themeVars >>

SpecChat == InitChat /\ [][NextChat]_vars

InitStore == ChatRest /\ StoreInit /\ FormsRest /\ AuthInit /\ SignupRest /\ ThemeRest

NextStore ==
    \/ \E b \in Bots, id \in ChunkIds, doc \in DocIds, seq \in SeqIndexes, v \in Vectors : Upsert(b, id, doc, seq, v)
       /\ UNCHANGED << ingest, turn, chatVars, formVars, authVars, signupVars, themeVars >>
    \/ \E b \in Bots, doc \in DocIds : DeleteDoc(b, doc)
       /\ UNCHANGED << ingest, turn, chatVars, formVars, authVars, signupVars, themeVars >>
    \/ \E b \in Bots : DeleteBotChunks(b)
       /\ UNCHANGED << ingest, turn, chatVars, formVars, authVars, signupVars, themeVars >>

SpecStore == InitStore /\ [][NextStore]_vars

InitIngest == ChatRest /\ StoreInit /\ FormsRest /\ AuthInit /\ SignupRest /\ ThemeRest

NextIngest ==
    \/ \E b \in Bots, doc \in DocIds, total \in 0..MaxDocChunks :
          Cardinality(Started) < MaxIngests /\ StartIngest(b, doc, total)
       /\ UNCHANGED << chatVars, formVars, authVars, signupVars, themeVars >>
    \/ \E b \in Bots, doc \in DocIds : WriteChunk(b, doc)
       /\ UNCHANGED << chatVars, formVars, authVars, signupVars, themeVars >>
    \/ \E b \in Bots, doc \in DocIds : FinishIngest(b, doc)
       /\ UNCHANGED << chatVars, formVars, authVars, signupVars, themeVars >>
    \/ \E b \in Bots, doc \in DocIds, how \in { "failed", "cancelled" } :
          AbortIngest(b, doc, how)
       /\ UNCHANGED << chatVars, formVars, authVars, signupVars, themeVars >>
    \/ \E b \in Bots, doc \in DocIds : DeleteDocument(b, doc)
       /\ UNCHANGED << chatVars, formVars, authVars, signupVars, themeVars >>

SpecIngest == InitIngest /\ [][NextIngest]_vars

\* chat turns against bots whose documents come and go
InitAnswer == ChatRest /\ StoreInit /\ FormsRest /\ AuthInit /\ SignupRest /\ ThemeRest

NextAnswer ==
    \/ \E b \in Bots, doc \in DocIds :
          Cardinality(Started) < MaxIngests /\ StartIngest(b, doc, MaxDocChunks)
       /\ UNCHANGED << chatVars, formVars, authVars, signupVars, themeVars >>
    \/ \E b \in Bots, doc \in DocIds : WriteChunk(b, doc)
       /\ UNCHANGED << chatVars, formVars, authVars, signupVars, themeVars >>
    \/ \E b \in Bots, doc \in DocIds : FinishIngest(b, doc)
       /\ UNCHANGED << chatVars, formVars, authVars, signupVars, themeVars >>
    \/ \E b \in Bots, doc \in DocIds : AbortIngest(b, doc, "failed")
       /\ UNCHANGED << chatVars, formVars, authVars, signupVars, themeVars >>
    \/ \E b \in Bots, doc \in DocIds : DeleteDocument(b, doc)
       /\ UNCHANGED << chatVars, formVars, authVars, signupVars, themeVars >>
    \/ \E b \in Bots, q \in Vectors, minScore \in MinScores, llmOk \in BOOLEAN :
          ChatTurn(b, q, MaxTopK, minScore, llmOk)
       /\ UNCHANGED << chatVars, formVars, authVars, signupVars, themeVars >>

SpecAnswer == InitAnswer /\ [][NextAnswer]_vars

InitBatch == ChatRest /\ StoreInit /\ BatchInit /\ AuthInit /\ SignupRest /\ ThemeRest

NextBatch ==
    \/ SuccessTimeout
       /\ UNCHANGED << chatVars, storeVars, authVars, signupVars, themeVars >>
    \/ run.n < MaxRuns /\ HandleBuildBot
       /\ UNCHANGED << chatVars, storeVars, authVars, signupVars, themeVars >>
    \/ run.n < MaxRuns /\ HandleUpdateBot
       /\ UNCHANGED << chatVars, storeVars, authVars, signupVars, themeVars >>
    \/ \E ok \in BOOLEAN, detail \in Details : BotRequestSettles(ok, detail)
       /\ UNCHANGED << chatVars, storeVars, authVars, signupVars, themeVars >>
    \/ \E ok \in BOOLEAN, detail \in Details : IngestSettles(ok, detail)
       /\ UNCHANGED << chatVars, storeVars, authVars, signupVars, themeVars >>
    \/ \E ok \in BOOLEAN, detail \in Details : LoadBotSettles(ok, detail)
       /\ UNCHANGED << chatVars, storeVars, authVars, signupVars, themeVars >>
    \/ HandleRetryLoad
       /\ UNCHANGED << chatVars, storeVars, authVars, signupVars, themeVars >>
    \/ \E ok \in BOOLEAN : LoadDocumentsSettles(ok)
       /\ UNCHANGED << chatVars, storeVars, authVars, signupVars, themeVars >>
    \/ \E ok \in BOOLEAN : LoadChunksSettles(ok)
       /\ UNCHANGED << chatVars, storeVars, authVars, signupVars, themeVars >>
    \/ \E ok \in BOOLEAN : LoadBotsSettles(ok)
       /\ UNCHANGED << chatVars, storeVars, authVars, signupVars, themeVars >>

SpecBatch == InitBatch /\ [][NextBatch]_vars

InitDocs == ChatRest /\ StoreInit /\ DocsInit /\ AuthInit /\ SignupRest /\ ThemeRest

NextDocs ==
    \/ SuccessTimeout
       /\ UNCHANGED << chatVars, storeVars, authVars, signupVars, themeVars >>
    \/ run.n < MaxSaves /\ HandleUpdateBot
       /\ UNCHANGED << chatVars, storeVars, authVars, signupVars, themeVars >>
    \/ \E ok \in BOOLEAN, detail \in Details : BotRequestSettles(ok, detail)
       /\ UNCHANGED << chatVars, storeVars, authVars, signupVars, themeVars >>
    \/ \E ok \in BOOLEAN, detail \in Details : IngestSettles(ok, detail)
       /\ UNCHANGED << chatVars, storeVars, authVars, signupVars, themeVars >>
    \/ \E i \in 1..MaxDocs, confirmed \in BOOLEAN : HandleDeleteDocument(i, confirmed)
       /\ UNCHANGED << chatVars, storeVars, authVars, signupVars, themeVars >>
    \/ \E k \in 1..MaxPending, ok \in BOOLEAN, detail \in Details : DeleteSettles(k, ok, detail)
       /\ UNCHANGED << chatVars, storeVars, authVars, signupVars, themeVars >>
    \/ \E ok \in BOOLEAN, detail \in Details : LoadBotSettles(ok, detail)
       /\ UNCHANGED << chatVars, storeVars, authVars, signupVars, themeVars >>
    \/ HandleRetryLoad
       /\ UNCHANGED << chatVars, storeVars, authVars, signupVars, themeVars >>
    \/ \E ok \in BOOLEAN : LoadDocumentsSettles(ok)
       /\ UNCHANGED << chatVars, storeVars, authVars, signupVars, themeVars >>
    \/ \E ok \in BOOLEAN : LoadChunksSettles(ok)
       /\ UNCHANGED << chatVars, storeVars, authVars, signupVars, themeVars >>

SpecDocs == InitDocs /\ [][NextDocs]_vars

InitOptions == ChatRest /\ StoreInit /\ OptionsInit /\ AuthInit /\ SignupRest /\ ThemeRest

NextOptions ==
    \/ run.n < MaxSaves /\ HandleUpdateBot
       /\ UNCHANGED << chatVars, storeVars, authVars, signupVars, themeVars >>
    \/ \E ok \in BOOLEAN : AvatarSettles(ok, "")
       /\ UNCHANGED << chatVars, storeVars, authVars, signupVars, themeVars >>
    \/ \E ok \in BOOLEAN : BotRequestSettles(ok, "")
       /\ UNCHANGED << chatVars, storeVars, authVars, signupVars, themeVars >>
    \/ \E ok \in BOOLEAN : LoadBotSettles(ok, "")
       /\ UNCHANGED << chatVars, storeVars, authVars, signupVars, themeVars >>
    \/ \E ok \in BOOLEAN : LoadDocumentsSettles(ok)
       /\ UNCHANGED << chatVars, storeVars, authVars, signupVars, themeVars >>
    \/ \E ok \in BOOLEAN : LoadChunksSettles(ok)
       /\ UNCHANGED << chatVars, storeVars, authVars, signupVars, themeVars >>
    \/ run.edits < MaxEdits /\ HandleAddMenuOption
       /\ UNCHANGED << chatVars, storeVars, authVars, signupVars, themeVars >>
    \/ \E i \in 1..MaxOptions : run.edits < MaxEdits /\ HandleRemoveMenuOption(i)
       /\ UNCHANGED << chatVars, storeVars, authVars, signupVars, themeVars >>
    \/ \E i \in 1..MaxOptions, f \in OptionFields, v \in FieldTexts :
          run.edits < MaxEdits /\ HandleMenuOptionChange(i, f, v)
       /\ UNCHANGED << chatVars, storeVars, authVars, signupVars, themeVars >>
    \/ \E chosen \in BOOLEAN : SetBotAvatarFile(chosen)
       /\ UNCHANGED << chatVars, storeVars, authVars, signupVars, themeVars >>

SpecOptions == InitOptions /\ [][NextOptions]_vars

\* signing in and out from wherever the app is opened, the chat, the store
\* and the forms at rest
InitAuth == ChatRest /\ StoreInit /\ FormsRest /\ AuthOpen /\ SignupRest /\ ThemeRest

NextAuth ==
    \/ HandleLogin
       /\ UNCHANGED << chatVars, storeVars, formVars, signupVars, themeVars >>
    \/ \E ok \in BOOLEAN : (ok => issued < MaxTokens) /\ SignInSettles(ok)
       /\ UNCHANGED << chatVars, storeVars, formVars, signupVars, themeVars >>
    \/ GetSessionSettles
       /\ UNCHANGED << chatVars, storeVars, formVars, signupVars, themeVars >>
    \/ OrphanGetSessionSettles
       /\ UNCHANGED << chatVars, storeVars, formVars, signupVars, themeVars >>
    \/ \E hasSession \in BOOLEAN :
          (hasSession => issued < MaxTokens) /\ OnAuthStateChange(hasSession)
       /\ UNCHANGED << chatVars, storeVars, formVars, signupVars, themeVars >>
    \/ \E to \in Routes : Navigate(to)
       /\ UNCHANGED << chatVars, storeVars, formVars, signupVars, themeVars >>
    \/ \E confirmed \in BOOLEAN :
          (confirmed => signOuts < MaxSignOuts) /\ HandleLogout(confirmed)
       /\ UNCHANGED << chatVars, storeVars, formVars, signupVars, themeVars >>
    \/ \E ok \in BOOLEAN :
          (authLoading => orphans < MaxOrphans) /\ SignOutSettles(ok)
       /\ UNCHANGED << chatVars, storeVars, formVars, signupVars, themeVars >>

SpecAuth == InitAuth /\ [][NextAuth]_vars

\* the signup page, everything else at rest
InitSignup == ChatRest /\ StoreInit /\ FormsRest /\ AuthInit /\ SignupInit /\ ThemeRest

NextSignup ==
    \/ visit < MaxVisits /\ OpenSignup
       /\ UNCHANGED << chatVars, storeVars, formVars, authVars, themeVars >>
    \/ SignInHere
       /\ UNCHANGED << chatVars, storeVars, formVars, authVars, themeVars >>
    \/ HandleSignup
       /\ UNCHANGED << chatVars, storeVars, formVars, authVars, themeVars >>
    \/ \E v \in 1..MaxVisits, outcome \in { "ok", "error", "throws" } :
          SignUpSettles(v, outcome)
       /\ UNCHANGED << chatVars, storeVars, formVars, authVars, themeVars >>
    \/ \E v \in 1..MaxVisits : Tick(v)
       /\ UNCHANGED << chatVars, storeVars, formVars, authVars, themeVars >>
    \/ GoToLoginNow
       /\ UNCHANGED << chatVars, storeVars, formVars, authVars, themeVars >>

SpecSignup == InitSignup /\ [][NextSignup]_vars

\* the themes, everything else at rest
InitTheme ==
    ChatRest /\ StoreInit /\ FormsRest /\ AuthInit /\ SignupRest /\ ThemeInit

NextTheme ==
    \/ \E h \in Hooks : MountUseTheme(h)
       /\ UNCHANGED << chatVars, storeVars, formVars, authVars, signupVars >>
    \/ \E h \in Hooks : UnmountUseTheme(h)
       /\ UNCHANGED << chatVars, storeVars, formVars, authVars, signupVars >>
    \/ \E h \in Hooks : ThemeEffect(h)
       /\ UNCHANGED << chatVars, storeVars, formVars, authVars, signupVars >>
    \/ \E theme \in WidgetThemes : SetTheme(theme)
       /\ UNCHANGED << chatVars, storeVars, formVars, authVars, signupVars >>

SpecTheme == InitTheme /\ [][NextTheme]_vars

====
